---- MODULE Spec2Model ----
(***************************************************************************)
(* Model of the coordinate conversion library (parse -> convert -> format).*)
(*                                                                         *)
(* Numbers.  A JavaScript number is modelled by an exact rational <<n, d>> *)
(* in lowest terms with d > 0, so that truncation, rounding to a number of *)
(* decimals and the 60-unit carries are computed, not assumed.  Binary     *)
(* floating point error is not modelled; -0 is modelled by 0 (every test   *)
(* the code makes, >= 0, < 0, Math.sign(x) || 1, treats the two alike).    *)
(*                                                                         *)
(* Strings.  A string is a sequence of one-character strings.  The degree  *)
(* sign U+00B0 is written "~" (like the degree sign it is neither a word   *)
(* character, a digit, a sign nor white space).                            *)
(*                                                                         *)
(* State machine.  One value travels through the pipeline: Init draws the  *)
(* caller's input (a raw string or number to parse, a pair of them, or a   *)
(* DD, DM or DMS record) and the conversion options; every action applies  *)
(* one exported function to the current value; arg is the decimals         *)
(* argument of the last format call.                                       *)
(***************************************************************************)
EXTENDS Integers, Sequences, FiniteSets, TLC

VARIABLES orig, opts, path, prev, cur, arg

vars == <<orig, opts, path, prev, cur, arg>>

(***************************************************************************)
(* Bounds of the exploration                                               *)
(***************************************************************************)
\* fractions j / 10^6 and 1 - j / 10^6 are drawn for j up to MaxStep
MaxStep == 3
\* decimals option values 0 .. MaxDecimals
MaxDecimals == 3
\* number of functions applied in a row to one input
MaxPath == 3
\* number of numeric tokens that may follow the seconds token
MaxExtra == 1

(***************************************************************************)
(* Exact rational arithmetic                                               *)
(***************************************************************************)
Abs(n) == IF n < 0 THEN -n ELSE n

RECURSIVE GCD(_, _)
GCD(a, b) == IF b = 0 THEN a ELSE GCD(b, a % b)

Pow10(k) == 10 ^ k

Rat(n, d) ==
  LET g == GCD(Abs(n), Abs(d))
      s == IF d < 0 THEN -1 ELSE 1
  IN  <<s * (n \div g), s * (d \div g)>>

RInt(n) == <<n, 1>>

RNeg(x) == <<-x[1], x[2]>>

RAbs(x) == <<Abs(x[1]), x[2]>>

\* whole part and numerator of the proper fraction: x = W(x) + F(x) / x[2]
RWhole(x) == x[1] \div x[2]
RFracNum(x) == x[1] % x[2]

RAdd(x, y) ==
  LET g == GCD(x[2], y[2])
      l == x[2] * (y[2] \div g)
      f == RFracNum(x) * (y[2] \div g) + RFracNum(y) * (x[2] \div g)
      h == GCD(f, l)
  IN  <<(RWhole(x) + RWhole(y)) * (l \div h) + (f \div h), l \div h>>

RSub(x, y) == RAdd(x, RNeg(y))

RMul(x, y) ==
  LET g1 == GCD(Abs(x[1]), y[2])
      g2 == GCD(Abs(y[1]), x[2])
  IN  <<(x[1] \div g1) * (y[1] \div g2), (x[2] \div g2) * (y[2] \div g1)>>

RDiv(x, y) == RMul(x, IF y[1] < 0 THEN <<-y[2], -y[1]>> ELSE <<y[2], y[1]>>)

RLt(x, y) ==
  IF RWhole(x) # RWhole(y) THEN RWhole(x) < RWhole(y)
  ELSE LET g == GCD(x[2], y[2])
       IN  RFracNum(x) * (y[2] \div g) < RFracNum(y) * (x[2] \div g)

RLe(x, y) == ~RLt(y, x)

RGe(x, y) == ~RLt(x, y)

RGt(x, y) == RLt(y, x)

RIsInt(x) == x[2] = 1

\* Math.floor
RFloor(x) == RInt(RWhole(x))

\* Math.trunc
RTrunc(x) == IF x[1] >= 0 THEN RInt(x[1] \div x[2]) ELSE RInt(-((-x[1]) \div x[2]))

\* Math.sign
RSign(x) == IF x[1] > 0 THEN 1 ELSE IF x[1] < 0 THEN -1 ELSE 0

\* +(x).toFixed(k): the multiple of 10^-k nearest to x, the larger magnitude
\* on a tie
ToFixed(x, k) ==
  LET y == RMul(RAbs(x), RInt(Pow10(k)))
      n == (2 * y[1] + y[2]) \div (2 * y[2])
      r == Rat(n, Pow10(k))
  IN  IF x[1] < 0 THEN RNeg(r) ELSE r

\* x has at most k fractional digits
HasDecimals(x, k) == Pow10(k) % x[2] = 0

(***************************************************************************)
(* Types and data                                                          *)
(***************************************************************************)
LAT == "lat"
LON == "lon"
CoordinateType == {LAT, LON}

Hemisphere == {"N", "S", "E", "W"}
\* an absent optional hemisphere (undefined)
NoHemi == ""

DEG_MAX(kind) == IF kind = LAT THEN 90 ELSE 180

MINUTES_PER_DEGREE == 60
SECONDS_PER_DEGREE == 3600
SECONDS_PER_MINUTE == 60
MAX_MINUTES == 60
MAX_SECONDS == 60
MINUTES_TO_DEGREES == 60
SECONDS_TO_MINUTES == 60
DM_DECIMALS == 2
DMS_DECIMALS == 2
DD_DECIMALS == 5

DD(kind, degrees) == [kind |-> kind, degrees |-> degrees]
DM(kind, degrees, minutes, hemi) ==
  [kind |-> kind, degrees |-> degrees, minutes |-> minutes, hemi |-> hemi]
DMS(kind, degrees, minutes, seconds, hemi) ==
  [kind |-> kind, degrees |-> degrees, minutes |-> minutes,
   seconds |-> seconds, hemi |-> hemi]

\* the outcome of a call: a returned value or a raised error
Ok(form, v) == [form |-> form, val |-> v]
Raise(msg) == [form |-> "ERR", err |-> msg]

ErrMinutesParse == "Minutes must be < 60"
ErrSecondsParse == "Seconds must be < 60"
ErrMinutes == "Minutes must be in [0, 60)"
ErrSeconds == "Seconds must be in [0, 60)"
ErrUnrecognized == "Unrecognized coordinate format"
ErrUnsupported == "Unsupported input type"
ErrInvalidNumber == "Invalid decimal degrees"
ErrRange(kind) == IF kind = LAT THEN "lat degrees out of range"
                  ELSE "lon degrees out of range"

(***************************************************************************)
(* Helpers                                                                 *)
(***************************************************************************)
\* dirFromSign counting zero as negative
dirFromSign_ZeroNegative(kind, value) ==
  IF kind = LAT
  THEN (IF RGt(value, RInt(0)) THEN "N" ELSE "S")
  ELSE (IF RGt(value, RInt(0)) THEN "E" ELSE "W")

dirFromSign(kind, value) ==
  IF kind = LAT
  THEN (IF RGe(value, RInt(0)) THEN "N" ELSE "S")
  ELSE (IF RGe(value, RInt(0)) THEN "E" ELSE "W")

detectKindFromHemi(hemi) == IF hemi = "N" \/ hemi = "S" THEN LAT ELSE LON

\* applyHemiToSign negating the value for S and W without taking its magnitude
applyHemiToSign_Negate(value, hemi) ==
  IF hemi = NoHemi THEN value
  ELSE IF hemi = "S" \/ hemi = "W" THEN RNeg(value)
  ELSE RAbs(value)

applyHemiToSign(value, hemi) ==
  IF hemi = NoHemi THEN value
  ELSE IF hemi = "S" \/ hemi = "W" THEN RNeg(RAbs(value))
  ELSE RAbs(value)

\* clampDegrees without the lower bound
clampDegrees_NoLower(kind, deg) ==
  LET max == DEG_MAX(kind)
  IN  IF RGt(deg, RInt(max)) THEN RInt(max) ELSE deg

\* clampDegrees using the latitude maximum for both axes
clampDegrees_LatOnly(kind, deg) ==
  LET max == DEG_MAX(LAT)
  IN  IF RGt(deg, RInt(max)) THEN RInt(max)
      ELSE IF RLt(deg, RInt(-max)) THEN RInt(-max)
      ELSE deg

\* clampDegrees returning its argument
clampDegrees_Identity(kind, deg) == deg

clampDegrees(kind, deg) ==
  LET max == DEG_MAX(kind)
  IN  IF RGt(deg, RInt(max)) THEN RInt(max)
      ELSE IF RLt(deg, RInt(-max)) THEN RInt(-max)
      ELSE deg

\* validateRange without the lower bound
validateRange_NoLower(kind, deg) ==
  LET max == DEG_MAX(kind)
  IN  ~RGt(deg, RInt(max))

\* TRUE when validateRange returns, FALSE when it throws
validateRange(kind, deg) ==
  LET max == DEG_MAX(kind)
  IN  ~(RLt(deg, RInt(-max)) \/ RGt(deg, RInt(max)))

(***************************************************************************)
(* Converter                                                               *)
(***************************************************************************)
\* opts?.decimals ?? default ; an omitted option is the empty set
DecimalsOr(o, default) ==
  IF o.decimals = {} THEN default ELSE CHOOSE k \in o.decimals : TRUE

\* ddToDM rolling over on minutes > 60 instead of minutes >= 60
ddToDM_Strict(dd, o) ==
  LET decimals == DecimalsOr(o, DM_DECIMALS)
      degVal == IF o.clamp THEN clampDegrees(dd.kind, dd.degrees) ELSE dd.degrees
      degInt == RTrunc(degVal)
      frac == RAbs(RSub(degVal, degInt))
      minutes == ToFixed(RMul(frac, RInt(MINUTES_PER_DEGREE)), decimals)
  IN  IF RGt(minutes, RInt(MINUTES_TO_DEGREES))
      THEN LET rolled == IF RGe(degInt, RInt(0)) THEN RAdd(degInt, RInt(1))
                         ELSE RSub(degInt, RInt(1))
           IN  DM(dd.kind, RAbs(rolled), RInt(0), dirFromSign(dd.kind, rolled))
      ELSE DM(dd.kind, RAbs(degInt), minutes, dirFromSign(dd.kind, degVal))

\* ddToDM leaving the minutes unrounded
ddToDM_Unrounded(dd, o) ==
  LET degVal == IF o.clamp THEN clampDegrees(dd.kind, dd.degrees) ELSE dd.degrees
      degInt == RTrunc(degVal)
      frac == RAbs(RSub(degVal, degInt))
      minutes == RMul(frac, RInt(MINUTES_PER_DEGREE))
  IN  DM(dd.kind, RAbs(degInt), minutes, dirFromSign(dd.kind, degVal))

\* ddToDM clamping whether or not clamp was asked for
ddToDM_AlwaysClamp(dd, o) ==
  LET decimals == DecimalsOr(o, DM_DECIMALS)
      degVal == clampDegrees(dd.kind, dd.degrees)
      degInt == RTrunc(degVal)
      frac == RAbs(RSub(degVal, degInt))
      minutes == ToFixed(RMul(frac, RInt(MINUTES_PER_DEGREE)), decimals)
  IN  IF RGe(minutes, RInt(MINUTES_TO_DEGREES))
      THEN LET rolled == IF RGe(degInt, RInt(0)) THEN RAdd(degInt, RInt(1))
                         ELSE RSub(degInt, RInt(1))
           IN  DM(dd.kind, RAbs(rolled), RInt(0), dirFromSign(dd.kind, rolled))
      ELSE DM(dd.kind, RAbs(degInt), minutes, dirFromSign(dd.kind, degVal))

\* ddToDM resetting minutes of 60 without carrying into the degrees
ddToDM_DropCarry(dd, o) ==
  LET decimals == DecimalsOr(o, DM_DECIMALS)
      degVal == IF o.clamp THEN clampDegrees(dd.kind, dd.degrees) ELSE dd.degrees
      degInt == RTrunc(degVal)
      frac == RAbs(RSub(degVal, degInt))
      minutes0 == ToFixed(RMul(frac, RInt(MINUTES_PER_DEGREE)), decimals)
      minutes == IF RGe(minutes0, RInt(MINUTES_TO_DEGREES)) THEN RInt(0) ELSE minutes0
  IN  DM(dd.kind, RAbs(degInt), minutes, dirFromSign(dd.kind, degVal))

ddToDM(dd, o) ==
  LET decimals == DecimalsOr(o, DM_DECIMALS)
      degVal == IF o.clamp THEN clampDegrees(dd.kind, dd.degrees) ELSE dd.degrees
      degInt == RTrunc(degVal)
      frac == RAbs(RSub(degVal, degInt))
      minutes == ToFixed(RMul(frac, RInt(MINUTES_PER_DEGREE)), decimals)
  IN  IF RGe(minutes, RInt(MINUTES_TO_DEGREES))
      THEN LET rolled == IF RGe(degInt, RInt(0)) THEN RAdd(degInt, RInt(1))
                         ELSE RSub(degInt, RInt(1))
           IN  DM(dd.kind, RAbs(rolled), RInt(0), dirFromSign(dd.kind, rolled))
      ELSE DM(dd.kind, RAbs(degInt), minutes, dirFromSign(dd.kind, degVal))

\* ddToDMS resetting seconds of 60 without carrying into the minutes
ddToDMS_NoCarry(dd, o) ==
  LET decimals == DecimalsOr(o, DMS_DECIMALS)
      degVal == IF o.clamp THEN clampDegrees(dd.kind, dd.degrees) ELSE dd.degrees
      degInt == RTrunc(degVal)
      frac == RAbs(RSub(degVal, degInt))
      minutes0 == RFloor(RMul(frac, RInt(MINUTES_PER_DEGREE)))
      seconds0 == ToFixed(RSub(RMul(frac, RInt(SECONDS_PER_DEGREE)),
                               RMul(minutes0, RInt(SECONDS_PER_MINUTE))), decimals)
      seconds == IF RGe(seconds0, RInt(SECONDS_TO_MINUTES)) THEN RInt(0) ELSE seconds0
  IN  DMS(dd.kind, RAbs(degInt), minutes0, seconds, dirFromSign(dd.kind, degVal))

\* ddToDMS carrying the seconds into the minutes but never the minutes into
\* the degrees
ddToDMS_NoMinuteCarry(dd, o) ==
  LET decimals == DecimalsOr(o, DMS_DECIMALS)
      degVal == IF o.clamp THEN clampDegrees(dd.kind, dd.degrees) ELSE dd.degrees
      degInt == RTrunc(degVal)
      frac == RAbs(RSub(degVal, degInt))
      minutes0 == RFloor(RMul(frac, RInt(MINUTES_PER_DEGREE)))
      seconds0 == ToFixed(RSub(RMul(frac, RInt(SECONDS_PER_DEGREE)),
                               RMul(minutes0, RInt(SECONDS_PER_MINUTE))), decimals)
      carryS == RGe(seconds0, RInt(SECONDS_TO_MINUTES))
      seconds == IF carryS THEN RInt(0) ELSE seconds0
      minutes == IF carryS THEN RAdd(minutes0, RInt(1)) ELSE minutes0
  IN  DMS(dd.kind, RAbs(degInt), minutes, seconds, dirFromSign(dd.kind, degVal))

\* ddToDMS deriving the hemisphere from the truncated degree
ddToDMS_HemiFromDegInt(dd, o) ==
  LET decimals == DecimalsOr(o, DMS_DECIMALS)
      degVal == IF o.clamp THEN clampDegrees(dd.kind, dd.degrees) ELSE dd.degrees
      degInt == RTrunc(degVal)
      frac == RAbs(RSub(degVal, degInt))
      minutes0 == RFloor(RMul(frac, RInt(MINUTES_PER_DEGREE)))
      seconds0 == ToFixed(RSub(RMul(frac, RInt(SECONDS_PER_DEGREE)),
                               RMul(minutes0, RInt(SECONDS_PER_MINUTE))), decimals)
      degreesAbs0 == RAbs(degInt)
      carryS == RGe(seconds0, RInt(SECONDS_TO_MINUTES))
      seconds == IF carryS THEN RInt(0) ELSE seconds0
      minutes1 == IF carryS THEN RAdd(minutes0, RInt(1)) ELSE minutes0
      carryM == RGe(minutes1, RInt(MINUTES_TO_DEGREES))
      minutes == IF carryM THEN RInt(0) ELSE minutes1
      degreesAbs == IF carryM THEN RAdd(degreesAbs0, RInt(1)) ELSE degreesAbs0
  IN  DMS(dd.kind, degreesAbs, minutes, seconds, dirFromSign(dd.kind, degInt))

ddToDMS(dd, o) ==
  LET decimals == DecimalsOr(o, DMS_DECIMALS)
      degVal == IF o.clamp THEN clampDegrees(dd.kind, dd.degrees) ELSE dd.degrees
      degInt == RTrunc(degVal)
      frac == RAbs(RSub(degVal, degInt))
      minutes0 == RFloor(RMul(frac, RInt(MINUTES_PER_DEGREE)))
      seconds0 == ToFixed(RSub(RMul(frac, RInt(SECONDS_PER_DEGREE)),
                               RMul(minutes0, RInt(SECONDS_PER_MINUTE))), decimals)
      degreesAbs0 == RAbs(degInt)
      carryS == RGe(seconds0, RInt(SECONDS_TO_MINUTES))
      seconds == IF carryS THEN RInt(0) ELSE seconds0
      minutes1 == IF carryS THEN RAdd(minutes0, RInt(1)) ELSE minutes0
      carryM == RGe(minutes1, RInt(MINUTES_TO_DEGREES))
      minutes == IF carryM THEN RInt(0) ELSE minutes1
      degreesAbs == IF carryM THEN RAdd(degreesAbs0, RInt(1)) ELSE degreesAbs0
  IN  DMS(dd.kind, degreesAbs, minutes, seconds, dirFromSign(dd.kind, degVal))

\* dmToDD accepting minutes of exactly 60
dmToDD_AllowSixty(dm) ==
  IF RLt(dm.minutes, RInt(0)) \/ RGt(dm.minutes, RInt(MAX_MINUTES))
  THEN Raise(ErrMinutes)
  ELSE LET base == RAdd(RAbs(dm.degrees),
                        RDiv(dm.minutes, RInt(MINUTES_PER_DEGREE)))
           signed == applyHemiToSign(
                       IF RLt(dm.degrees, RInt(0)) THEN RNeg(base) ELSE base,
                       dm.hemi)
       IN  IF validateRange(dm.kind, signed)
           THEN Ok("DD", DD(dm.kind, signed))
           ELSE Raise(ErrRange(dm.kind))

\* dmToDD letting a negative degrees field decide the sign against the letter
dmToDD_NegativeDegreesWin(dm) ==
  IF RLt(dm.minutes, RInt(0)) \/ RGe(dm.minutes, RInt(MAX_MINUTES))
  THEN Raise(ErrMinutes)
  ELSE LET base == RAdd(RAbs(dm.degrees),
                        RDiv(dm.minutes, RInt(MINUTES_PER_DEGREE)))
           signed == IF RLt(dm.degrees, RInt(0)) THEN RNeg(base)
                     ELSE applyHemiToSign(base, dm.hemi)
       IN  IF validateRange(dm.kind, signed)
           THEN Ok("DD", DD(dm.kind, signed))
           ELSE Raise(ErrRange(dm.kind))

\* dmToDD refusing a letter that does not belong to the axis
dmToDD_CrossChecked(dm) ==
  IF RLt(dm.minutes, RInt(0)) \/ RGe(dm.minutes, RInt(MAX_MINUTES))
  THEN Raise(ErrMinutes)
  ELSE IF dm.hemi # NoHemi /\ detectKindFromHemi(dm.hemi) # dm.kind
  THEN Raise(ErrRange(dm.kind))
  ELSE LET base == RAdd(RAbs(dm.degrees),
                        RDiv(dm.minutes, RInt(MINUTES_PER_DEGREE)))
           signed == applyHemiToSign(
                       IF RLt(dm.degrees, RInt(0)) THEN RNeg(base) ELSE base,
                       dm.hemi)
       IN  IF validateRange(dm.kind, signed)
           THEN Ok("DD", DD(dm.kind, signed))
           ELSE Raise(ErrRange(dm.kind))

dmToDD(dm) ==
  IF RLt(dm.minutes, RInt(0)) \/ RGe(dm.minutes, RInt(MAX_MINUTES))
  THEN Raise(ErrMinutes)
  ELSE LET base == RAdd(RAbs(dm.degrees),
                        RDiv(dm.minutes, RInt(MINUTES_PER_DEGREE)))
           signed == applyHemiToSign(
                       IF RLt(dm.degrees, RInt(0)) THEN RNeg(base) ELSE base,
                       dm.hemi)
       IN  IF validateRange(dm.kind, signed)
           THEN Ok("DD", DD(dm.kind, signed))
           ELSE Raise(ErrRange(dm.kind))

\* dmsToDD dividing the seconds by 60 instead of 3600
dmsToDD_SecondsPerMinute(dms) ==
  IF RLt(dms.minutes, RInt(0)) \/ RGe(dms.minutes, RInt(MAX_MINUTES))
  THEN Raise(ErrMinutes)
  ELSE IF RLt(dms.seconds, RInt(0)) \/ RGe(dms.seconds, RInt(MAX_SECONDS))
  THEN Raise(ErrSeconds)
  ELSE LET base == RAdd(RAdd(RAbs(dms.degrees),
                             RDiv(dms.minutes, RInt(MINUTES_PER_DEGREE))),
                        RDiv(dms.seconds, RInt(SECONDS_PER_MINUTE)))
           signed == applyHemiToSign(
                       IF RLt(dms.degrees, RInt(0)) THEN RNeg(base) ELSE base,
                       dms.hemi)
       IN  IF validateRange(dms.kind, signed)
           THEN Ok("DD", DD(dms.kind, signed))
           ELSE Raise(ErrRange(dms.kind))

\* dmsToDD saturating an out-of-range result instead of raising
dmsToDD_Clamping(dms) ==
  IF RLt(dms.minutes, RInt(0)) \/ RGe(dms.minutes, RInt(MAX_MINUTES))
  THEN Raise(ErrMinutes)
  ELSE IF RLt(dms.seconds, RInt(0)) \/ RGe(dms.seconds, RInt(MAX_SECONDS))
  THEN Raise(ErrSeconds)
  ELSE LET base == RAdd(RAdd(RAbs(dms.degrees),
                             RDiv(dms.minutes, RInt(MINUTES_PER_DEGREE))),
                        RDiv(dms.seconds, RInt(SECONDS_PER_DEGREE)))
           signed == applyHemiToSign(
                       IF RLt(dms.degrees, RInt(0)) THEN RNeg(base) ELSE base,
                       dms.hemi)
       IN  Ok("DD", DD(dms.kind, clampDegrees(dms.kind, signed)))

\* dmsToDD checking the seconds before the minutes
dmsToDD_SecondsFirst(dms) ==
  IF RLt(dms.seconds, RInt(0)) \/ RGe(dms.seconds, RInt(MAX_SECONDS))
  THEN Raise(ErrSeconds)
  ELSE IF RLt(dms.minutes, RInt(0)) \/ RGe(dms.minutes, RInt(MAX_MINUTES))
  THEN Raise(ErrMinutes)
  ELSE LET base == RAdd(RAdd(RAbs(dms.degrees),
                             RDiv(dms.minutes, RInt(MINUTES_PER_DEGREE))),
                        RDiv(dms.seconds, RInt(SECONDS_PER_DEGREE)))
           signed == applyHemiToSign(
                       IF RLt(dms.degrees, RInt(0)) THEN RNeg(base) ELSE base,
                       dms.hemi)
       IN  IF validateRange(dms.kind, signed)
           THEN Ok("DD", DD(dms.kind, signed))
           ELSE Raise(ErrRange(dms.kind))

dmsToDD(dms) ==
  IF RLt(dms.minutes, RInt(0)) \/ RGe(dms.minutes, RInt(MAX_MINUTES))
  THEN Raise(ErrMinutes)
  ELSE IF RLt(dms.seconds, RInt(0)) \/ RGe(dms.seconds, RInt(MAX_SECONDS))
  THEN Raise(ErrSeconds)
  ELSE LET base == RAdd(RAdd(RAbs(dms.degrees),
                             RDiv(dms.minutes, RInt(MINUTES_PER_DEGREE))),
                        RDiv(dms.seconds, RInt(SECONDS_PER_DEGREE)))
           signed == applyHemiToSign(
                       IF RLt(dms.degrees, RInt(0)) THEN RNeg(base) ELSE base,
                       dms.hemi)
       IN  IF validateRange(dms.kind, signed)
           THEN Ok("DD", DD(dms.kind, signed))
           ELSE Raise(ErrRange(dms.kind))

(***************************************************************************)
(* Strings and the regular expressions of the parser                       *)
(***************************************************************************)
Digits == <<"0", "1", "2", "3", "4", "5", "6", "7", "8", "9">>
LowerCase == <<"a", "b", "c", "d", "e", "f", "g", "h", "i", "j", "k", "l", "m",
               "n", "o", "p", "q", "r", "s", "t", "u", "v", "w", "x", "y", "z">>
UpperCase == <<"A", "B", "C", "D", "E", "F", "G", "H", "I", "J", "K", "L", "M",
               "N", "O", "P", "Q", "R", "S", "T", "U", "V", "W", "X", "Y", "Z">>

Range(f) == {f[i] : i \in DOMAIN f}

DigitChars == Range(Digits)
WordChars == Range(Digits) \cup Range(LowerCase) \cup Range(UpperCase) \cup {"_"}
DigitValues == [c \in DigitChars |-> (CHOOSE i \in DOMAIN Digits : Digits[i] = c) - 1]
UpperCaseOf == [c \in Range(LowerCase) |->
                 UpperCase[CHOOSE i \in DOMAIN LowerCase : LowerCase[i] = c]]

\* \d
IsDigit(c) == c \in DigitChars

DigitVal(c) == DigitValues[c]

\* \w
IsWord(c) == c \in WordChars

\* white space removed by String.prototype.trim
IsSpace(c) == c = " "

UpperOf(c) == IF c \in DOMAIN UpperCaseOf THEN UpperCaseOf[c] ELSE c

toUpperCase(s) == [i \in 1..Len(s) |-> UpperOf(s[i])]

RECURSIVE trimStart(_)
trimStart(s) == IF s # <<>> /\ IsSpace(Head(s)) THEN trimStart(Tail(s)) ELSE s

RECURSIVE trimEnd(_)
trimEnd(s) ==
  IF s # <<>> /\ IsSpace(s[Len(s)]) THEN trimEnd(SubSeq(s, 1, Len(s) - 1)) ELSE s

trim(s) == trimEnd(trimStart(s))

\* \d+ taken greedily from position i: the position after the last digit
RECURSIVE DigitsEnd(_, _)
DigitsEnd(s, i) == IF i <= Len(s) /\ IsDigit(s[i]) THEN DigitsEnd(s, i + 1) ELSE i

\* [+-]?\d+(?:\.\d+)? matched at position i: the position after the match,
\* 0 when the pattern does not match at i
MatchNumAt(s, i) ==
  LET p == IF i + 1 <= Len(s) /\ s[i] \in {"+", "-"} /\ IsDigit(s[i + 1])
           THEN i + 1 ELSE i
  IN  IF p > Len(s) \/ ~IsDigit(s[p]) THEN 0
      ELSE LET q == DigitsEnd(s, p)
           IN  IF q + 1 <= Len(s) /\ s[q] = "." /\ IsDigit(s[q + 1])
               THEN DigitsEnd(s, q + 1)
               ELSE q

\* /^[+-]?\d+(\.\d+)?$/.test(s)
IsPlainDecimal(s) == s # <<>> /\ MatchNumAt(s, 1) = Len(s) + 1

\* s.match(/[+-]?\d+(?:\.\d+)?/g) from position i: the matched substrings
RECURSIVE MatchAllNums(_, _)
MatchAllNums(s, i) ==
  IF i > Len(s) THEN <<>>
  ELSE LET e == MatchNumAt(s, i)
       IN  IF e = 0 THEN MatchAllNums(s, i + 1)
           ELSE <<SubSeq(s, i, e - 1)>> \o MatchAllNums(s, e)

\* the value of a digit string
RECURSIVE DigitsVal(_)
DigitsVal(s) ==
  IF s = <<>> THEN 0
  ELSE 10 * DigitsVal(SubSeq(s, 1, Len(s) - 1)) + DigitVal(s[Len(s)])

\* Number(t) for a string t of the form [+-]?\d+(\.\d+)?
Number(t) ==
  LET neg == t[1] = "-"
      b == IF t[1] \in {"+", "-"} THEN 2 ELSE 1
      q == DigitsEnd(t, b)
      ip == DigitsVal(SubSeq(t, b, q - 1))
      fr == IF q <= Len(t) THEN SubSeq(t, q + 1, Len(t)) ELSE <<>>
      mag == RAdd(RInt(ip), Rat(DigitsVal(fr), Pow10(Len(fr))))
  IN  IF neg THEN RNeg(mag) ELSE mag

\* raw.match(/\b([NSEW])\b/)?.[1] : the first letter of N, S, E, W that has
\* no word character next to it, NoHemi when there is none
hemiMatch(raw) ==
  LET hits == {i \in 1..Len(raw) :
                 /\ raw[i] \in Hemisphere
                 /\ (i = 1 \/ ~IsWord(raw[i - 1]))
                 /\ (i = Len(raw) \/ ~IsWord(raw[i + 1]))}
  IN  IF hits = {} THEN NoHemi
      ELSE raw[CHOOSE i \in hits : \A j \in hits : i <= j]

(***************************************************************************)
(* Parser                                                                  *)
(***************************************************************************)
\* the caller's input: a number (finite or not), a string, or anything else
NumInput(v) == [type |-> "number", fin |-> "finite", num |-> v, text |-> <<>>]
NonFinite(f) == [type |-> "number", fin |-> f, num |-> RInt(0), text |-> <<>>]
StrInput(s) == [type |-> "string", fin |-> "finite", num |-> RInt(0), text |-> s]
OtherInput == [type |-> "other", fin |-> "NaN", num |-> RInt(0), text |-> <<>>]

\* ensureFinite letting a non-finite number through as zero
ensureFinite_Unchecked(n) ==
  IF n.type = "string" THEN Ok("NUM", Number(trim(n.text)))
  ELSE Ok("NUM", n.num)

\* ensureFinite: the number, or the error raised
ensureFinite(n) ==
  IF n.type = "string" THEN Ok("NUM", Number(trim(n.text)))
  ELSE IF n.fin # "finite" THEN Raise(ErrInvalidNumber)
  ELSE Ok("NUM", n.num)

\* the composition keeping the fraction of the degree token
Compose_NoTrunc(degPart, minutes, seconds, hemi) ==
  LET degAbs == RAbs(degPart)
      sign0 == IF RSign(degPart) # 0 THEN RSign(degPart) ELSE 1
      sign == IF hemi # NoHemi
              THEN (IF hemi = "S" \/ hemi = "W" THEN -1 ELSE 1)
              ELSE sign0
  IN  RMul(RInt(sign),
           RAdd(RAdd(degAbs, RDiv(minutes, RInt(MINUTES_PER_DEGREE))),
                RDiv(seconds, RInt(SECONDS_PER_DEGREE))))

\* the value composed by the 2-number and 3-number branches
Compose(degPart, minutes, seconds, hemi) ==
  LET degAbs == RTrunc(RAbs(degPart))
      sign0 == IF RSign(degPart) # 0 THEN RSign(degPart) ELSE 1
      sign == IF hemi # NoHemi
              THEN (IF hemi = "S" \/ hemi = "W" THEN -1 ELSE 1)
              ELSE sign0
  IN  RMul(RInt(sign),
           RAdd(RAdd(degAbs, RDiv(minutes, RInt(MINUTES_PER_DEGREE))),
                RDiv(seconds, RInt(SECONDS_PER_DEGREE))))

Validated(kind, deg) ==
  IF validateRange(kind, deg) THEN Ok("DD", DD(kind, deg)) ELSE Raise(ErrRange(kind))

\* parseToDD without the seconds check of the 3-number branch
parseToDD_NoSecondsCheck(input, kind) ==
  IF input.type = "number" \/ (input.type = "string" /\ IsPlainDecimal(trim(input.text)))
  THEN LET degrees == ensureFinite(input)
       IN  IF degrees.form = "ERR" THEN degrees ELSE Validated(kind, degrees.val)
  ELSE IF input.type # "string" THEN Raise(ErrUnsupported)
  ELSE LET raw == toUpperCase(trim(input.text))
           hemi == hemiMatch(raw)
           toks == MatchAllNums(raw, 1)
           nums == [i \in 1..Len(toks) |-> Number(toks[i])]
       IN  IF Len(nums) = 1
           THEN Validated(kind, applyHemiToSign(nums[1], hemi))
           ELSE IF Len(nums) = 2
           THEN LET minutes == RAbs(nums[2])
                IN  IF RGe(minutes, RInt(MAX_MINUTES)) THEN Raise(ErrMinutesParse)
                    ELSE Validated(kind, Compose(nums[1], minutes, RInt(0), hemi))
           ELSE IF Len(nums) >= 3
           THEN LET minutes == RAbs(nums[2])
                    seconds == RAbs(nums[3])
                IN  IF RGe(minutes, RInt(MAX_MINUTES)) THEN Raise(ErrMinutesParse)
                    ELSE Validated(kind, Compose(nums[1], minutes, seconds, hemi))
           ELSE Raise(ErrUnrecognized)

parseToDD(input, kind) ==
  IF input.type = "number" \/ (input.type = "string" /\ IsPlainDecimal(trim(input.text)))
  THEN LET degrees == ensureFinite(input)
       IN  IF degrees.form = "ERR" THEN degrees ELSE Validated(kind, degrees.val)
  ELSE IF input.type # "string" THEN Raise(ErrUnsupported)
  ELSE LET raw == toUpperCase(trim(input.text))
           hemi == hemiMatch(raw)
           toks == MatchAllNums(raw, 1)
           nums == [i \in 1..Len(toks) |-> Number(toks[i])]
       IN  IF Len(nums) = 1
           THEN Validated(kind, applyHemiToSign(nums[1], hemi))
           ELSE IF Len(nums) = 2
           THEN LET minutes == RAbs(nums[2])
                IN  IF RGe(minutes, RInt(MAX_MINUTES)) THEN Raise(ErrMinutesParse)
                    ELSE Validated(kind, Compose(nums[1], minutes, RInt(0), hemi))
           ELSE IF Len(nums) >= 3
           THEN LET minutes == RAbs(nums[2])
                    seconds == RAbs(nums[3])
                IN  IF RGe(minutes, RInt(MAX_MINUTES)) THEN Raise(ErrMinutesParse)
                    ELSE IF RGe(seconds, RInt(MAX_SECONDS)) THEN Raise(ErrSecondsParse)
                    ELSE Validated(kind, Compose(nums[1], minutes, seconds, hemi))
           ELSE Raise(ErrUnrecognized)

\* parsePairToDD parsing the longitude before the latitude
parsePairToDD_LonFirst(latInput, lonInput) ==
  LET lon == parseToDD(lonInput, LON)
  IN  IF lon.form = "ERR" THEN lon
      ELSE LET lat == parseToDD(latInput, LAT)
           IN  IF lat.form = "ERR" THEN lat ELSE Ok("DDPAIR", <<lat.val, lon.val>>)

parsePairToDD(latInput, lonInput) ==
  LET lat == parseToDD(latInput, LAT)
  IN  IF lat.form = "ERR" THEN lat
      ELSE LET lon == parseToDD(lonInput, LON)
           IN  IF lon.form = "ERR" THEN lon ELSE Ok("DDPAIR", <<lat.val, lon.val>>)

(***************************************************************************)
(* Formatter                                                               *)
(***************************************************************************)
\* the decimal digits of a natural number
RECURSIVE IntDigits(_)
IntDigits(n) ==
  IF n < 10 THEN <<Digits[n + 1]>>
  ELSE Append(IntDigits(n \div 10), Digits[(n % 10) + 1])

\* the k digits of the natural number n, with leading zeros
RECURSIVE PadDigits(_, _)
PadDigits(n, k) ==
  IF k = 0 THEN <<>>
  ELSE Append(PadDigits(n \div 10, k - 1), Digits[(n % 10) + 1])

\* x.toFixed(k): sign, whole part, and exactly k digits after the point
toFixed(x, k) ==
  LET r == ToFixed(RAbs(x), k)
      whole == RWhole(r)
      rest == RFracNum(r) * (Pow10(k) \div r[2])
  IN  (IF RLt(x, RInt(0)) THEN <<"-">> ELSE <<>>)
        \o IntDigits(whole)
        \o (IF k = 0 THEN <<>> ELSE <<".">> \o PadDigits(rest, k))

\* the fewest decimals that write x exactly (x has a finite decimal expansion)
FewestDecimals(x) == CHOOSE k \in 0..9 : HasDecimals(x, k) /\ \A j \in 0..(k - 1) : ~HasDecimals(x, j)

\* `${x}`: the shortest decimal text of a number
toString(x) == toFixed(x, FewestDecimals(x))

\* a call's optional decimals argument, the empty set when omitted
ArgOr(a, default) == IF a = {} THEN default ELSE CHOOSE k \in a : TRUE

\* dm.hemi ?? dirFromSign(dm.kind, dm.degrees)
HemiOr(v) == IF v.hemi = NoHemi THEN dirFromSign(v.kind, v.degrees) ELSE v.hemi

\* formatDM deriving the letter from the sign even when one is stored
formatDM_DerivedHemi(dm, a) ==
  LET decimals == ArgOr(a, DM_DECIMALS)
      hemi == dirFromSign(dm.kind, dm.degrees)
  IN  toString(RAbs(dm.degrees)) \o <<"~", " ">>
        \o toFixed(dm.minutes, decimals) \o <<"'", " ">> \o <<hemi>>

formatDM(dm, a) ==
  LET decimals == ArgOr(a, DM_DECIMALS)
      hemi == HemiOr(dm)
  IN  toString(RAbs(dm.degrees)) \o <<"~", " ">>
        \o toFixed(dm.minutes, decimals) \o <<"'", " ">> \o <<hemi>>

\* formatDMS leaving the hemisphere letter out
formatDMS_NoHemi(dms, a) ==
  LET decimals == ArgOr(a, DMS_DECIMALS)
  IN  toString(RAbs(dms.degrees)) \o <<"~", " ">>
        \o toString(dms.minutes) \o <<"'", " ">>
        \o toFixed(dms.seconds, decimals) \o <<"\"">>

formatDMS(dms, a) ==
  LET decimals == ArgOr(a, DMS_DECIMALS)
      hemi == HemiOr(dms)
  IN  toString(RAbs(dms.degrees)) \o <<"~", " ">>
        \o toString(dms.minutes) \o <<"'", " ">>
        \o toFixed(dms.seconds, decimals) \o <<"\"", " ">> \o <<hemi>>

formatDD(dd, a) ==
  LET decimals == ArgOr(a, DD_DECIMALS)
      hemi == dirFromSign(dd.kind, dd.degrees)
  IN  toFixed(RAbs(dd.degrees), decimals) \o <<"~", " ">> \o <<hemi>>

(***************************************************************************)
(* Inputs drawn by Init                                                    *)
(***************************************************************************)
\* numerators of the fractional parts, over 10^6
FracNums ==
  (0..MaxStep) \cup {Pow10(6) - j : j \in 1..MaxStep}
    \cup {83, 84, 250, 123456, 500000, 854400, 999000, 999900, 999990}

IntParts == {0, 1, 45, 89, 90, 95, 179, 180, 185}

DDInputs ==
  {DD(k, RMul(RInt(sg), RAdd(RInt(i), Rat(f, Pow10(6))))) :
     k \in CoordinateType, sg \in {1, -1}, i \in IntParts, f \in FracNums}

OptsInputs ==
  {[decimals |-> d, clamp |-> c] :
     d \in {{}} \cup {{k} : k \in 0..MaxDecimals}, c \in BOOLEAN}

\* opts omitted
NoOpts == [decimals |-> {}, clamp |-> FALSE]

\* the decimals a caller holding a DM or DMS value works with: the default, or 1
HandBuiltOpts == {NoOpts, [decimals |-> {1}, clamp |-> FALSE]}

DegToks ==
  {<<"4", "5">>, <<"-", "4", "5">>, <<"-", "0">>, <<"4", "5", ".", "9">>,
   <<"-", "0", ".", "5">>, <<"9", "0">>, <<"-", "9", "0">>, <<"9", "1">>,
   <<"1", "8", "0">>, <<"-", "1", "8", "0">>, <<"1", "8", "1">>, <<"+", "7">>}

MinToks == {<<"3", "0">>, <<"5", "9", ".", "9", "9">>, <<"6", "0">>, <<"-", "3", "0">>}

SecToks == {<<"1", "5">>, <<"5", "9", ".", "9">>, <<"6", "0">>}

ExtraTok == <<"9", "9">>

\* <<letter before the numbers, letter after them>>, <<>> for none
HemiPlaces ==
  {<<<<>>, <<>>>>, <<<<>>, <<"N">>>>, <<<<>>, <<"S">>>>, <<<<>>, <<"E">>>>,
   <<<<>>, <<"W">>>>, <<<<>>, <<"s">>>>, <<<<"S">>, <<>>>>, <<<<"S">>, <<"N">>>>,
   <<<<>>, <<"X">>>>}

\* <<minutes token, seconds token, number of further tokens>>
Tails ==
  {<<<<>>, <<>>, 0>>} \cup {<<m, <<>>, 0>> : m \in MinToks}
    \cup {<<m, s, n>> : m \in MinToks, s \in SecToks, n \in 0..MaxExtra}

RECURSIVE JoinSp(_)
JoinSp(ps) ==
  IF ps = <<>> THEN <<>>
  ELSE LET rest == JoinSp(Tail(ps))
       IN  IF Head(ps) = <<>> THEN rest
           ELSE IF rest = <<>> THEN Head(ps)
           ELSE Head(ps) \o <<" ">> \o rest

Marked(tok, mark) == IF tok = <<>> THEN <<>> ELSE tok \o <<mark>>

\* the text "S 45~ 30' 15" 99 N" (sym) or "S 45 30 15 99 N" (plain)
Text(h, d, t, sym) ==
  JoinSp(<<h[1],
           IF sym THEN Marked(d, "~") ELSE d,
           IF sym THEN Marked(t[1], "'") ELSE t[1],
           IF sym THEN Marked(t[2], "\"") ELSE t[2]>>
         \o [i \in 1..t[3] |-> ExtraTok]
         \o <<h[2]>>)

SpecialTexts ==
  {<<>>, <<"i", "n", "v", "a", "l", "i", "d">>, <<"4", "5", "N">>,
   <<" ", "4", "5", " ">>, <<"1", ".", "2", ".", "3">>,
   <<"4", "5", "-", "3", "0">>, <<"N">>, <<"4", "5", ".">>,
   <<"-", "9", "1">>, <<"-", "1", "8", "1">>, <<"0">>,
   <<"9", "0", ".", "0", "0", "0", "0", "0", "1">>}

Texts ==
  {Text(h, d, t, sym) : h \in HemiPlaces, d \in DegToks, t \in Tails, sym \in BOOLEAN}
    \cup SpecialTexts

NumberInputs ==
  {NumInput(dd.degrees) : dd \in {x \in DDInputs : x.kind = LAT /\ HasDecimals(x.degrees, 1)}}
    \cup {NonFinite(f) : f \in {"NaN", "+Infinity", "-Infinity"}}

RawInputs ==
  {[input |-> i, kind |-> k] :
     i \in {StrInput(s) : s \in Texts} \cup NumberInputs \cup {OtherInput},
     k \in CoordinateType}

\* hand-built DM and DMS values, as a caller may pass them
DegFields == {RInt(0), RInt(45), RInt(-45), RInt(90), RInt(180), Rat(911, 10)}

MinFields == {RInt(-1), RInt(0), RInt(30), Rat(51264, 1000), Rat(5999, 100), RInt(60), Rat(615, 10)}

SecFields == {Rat(-1, 2), RInt(0), Rat(1584, 100), Rat(59996, 1000), RInt(60)}

HemiFields == {NoHemi} \cup Hemisphere

DMInputs ==
  {DM(k, d, m, h) : k \in CoordinateType, d \in DegFields, m \in MinFields, h \in HemiFields}

DMSInputs ==
  {DMS(k, d, m, s, h) :
     k \in CoordinateType, d \in DegFields, m \in MinFields, s \in SecFields,
     h \in HemiFields}

\* the decimals argument of a format call: omitted (the empty set), or the
\* decimals the caller converts with
ArgInputs == {{}, opts.decimals}

\* the arguments of a pair call
PairItems ==
  {StrInput(<<"4", "8", ".", "8", "5", "4", "4", "~", " ", "N">>),
   StrInput(<<"1", "2", "3", ".", "5", "0", "0", "5", "~", " ", "W">>),
   StrInput(<<"9", "1">>), StrInput(<<"1", "8", "1">>),
   StrInput(<<"i", "n", "v", "a", "l", "i", "d">>),
   StrInput(<<"4", "5", " ", "6", "0">>),
   NumInput(Rat(488544, 10000)), NumInput(Rat(-1235005, 10000)),
   NonFinite("NaN")}

PairInputs == PairItems \X PairItems

(***************************************************************************)
(* The state machine                                                       *)
(***************************************************************************)
Init ==
  /\ \/ orig \in {Ok("RAW", r) : r \in RawInputs} /\ opts = NoOpts
     \/ orig \in {Ok("DD", d) : d \in DDInputs} /\ opts \in OptsInputs
     \/ orig \in {Ok("DM", d) : d \in DMInputs} /\ opts \in HandBuiltOpts
     \/ orig \in {Ok("DMS", d) : d \in DMSInputs} /\ opts \in HandBuiltOpts
     \/ orig \in {Ok("RAWPAIR", p) : p \in PairInputs} /\ opts = NoOpts
  /\ cur = orig
  /\ prev = orig
  /\ path = <<>>
  /\ arg = {}

\* one call: name(prev, a) returned out
Call(name, a, out) ==
  /\ Len(path) < MaxPath
  /\ cur' = out
  /\ prev' = cur
  /\ path' = Append(path, name)
  /\ arg' = a
  /\ UNCHANGED <<orig, opts>>

Step(name, out) == Call(name, arg, out)

ParseToDD ==
  /\ cur.form = "RAW"
  /\ Step("parseToDD", parseToDD(cur.val.input, cur.val.kind))

DdToDM ==
  /\ cur.form = "DD"
  /\ Step("ddToDM", Ok("DM", ddToDM(cur.val, opts)))

DdToDMS ==
  /\ cur.form = "DD"
  /\ Step("ddToDMS", Ok("DMS", ddToDMS(cur.val, opts)))

DmToDD ==
  /\ cur.form = "DM"
  /\ Step("dmToDD", dmToDD(cur.val))

DmsToDD ==
  /\ cur.form = "DMS"
  /\ Step("dmsToDD", dmsToDD(cur.val))

ParsePairToDD ==
  /\ cur.form = "RAWPAIR"
  /\ Step("parsePairToDD", parsePairToDD(cur.val[1], cur.val[2]))

FormatDM ==
  /\ cur.form = "DM"
  /\ \E a \in ArgInputs : Call("formatDM", a, Ok("TEXT", formatDM(cur.val, a)))

FormatDMS ==
  /\ cur.form = "DMS"
  /\ \E a \in ArgInputs : Call("formatDMS", a, Ok("TEXT", formatDMS(cur.val, a)))

FormatDD ==
  /\ cur.form = "DD"
  /\ \E a \in ArgInputs : Call("formatDD", a, Ok("TEXT", formatDD(cur.val, a)))

\* the outcome of parsing a rendered text back: the DD that ends a pipeline
\* (it is not converted again), or the error raised
ParsedBack(r) == IF r.form = "DD" THEN Ok("PARSED", r.val) ELSE r

\* the caller parses a rendered text back, on the axis of the rendered value
ParseFormatted ==
  /\ cur.form = "TEXT"
  /\ Step("parseFormatted", ParsedBack(parseToDD(StrInput(cur.val), prev.val.kind)))

DirFromSign ==
  /\ cur.form = "DD"
  /\ Step("dirFromSign", Ok("HEMI", dirFromSign(cur.val.kind, cur.val.degrees)))

DetectKindFromHemi ==
  /\ cur.form = "HEMI"
  /\ Step("detectKindFromHemi", Ok("KIND", detectKindFromHemi(cur.val)))

Next ==
  \/ ParseToDD \/ DdToDM \/ DdToDMS \/ DmToDD \/ DmsToDD
  \/ ParsePairToDD \/ FormatDM \/ FormatDMS \/ FormatDD
  \/ ParseFormatted \/ DirFromSign \/ DetectKindFromHemi

Spec == Init /\ [][Next]_vars

(***************************************************************************)
(* Vocabulary of the properties                                            *)
(***************************************************************************)
LastOp == IF path = <<>> THEN "" ELSE path[Len(path)]

\* the last step applied op to the value prev
Did(op) == LastOp = op

\* the whole run so far is the given sequence of calls, from a DD input
RanFromDD(ops) == path = ops /\ orig.form = "DD"

WithinAxis(kind, deg) == RLe(RAbs(deg), RInt(DEG_MAX(kind)))

DefaultDecimals(k) == opts.decimals = {} \/ opts.decimals = {k}

\* 1e-4
Tolerance == Rat(1, Pow10(4))

Close(x, y) == RLe(RAbs(RSub(x, y)), Tolerance)

\* the angle a DM or DMS value stands for, as a magnitude
AngleDM(dm) == RAdd(dm.degrees, RDiv(dm.minutes, RInt(60)))
AngleDMS(dms) == RAdd(AngleDM(dms), RDiv(dms.seconds, RInt(3600)))

InSixty(x) == RGe(x, RInt(0)) /\ RLt(x, RInt(60))

\* a fully valid DM / DMS value
ValidDM(dm) ==
  /\ RGe(dm.degrees, RInt(0))
  /\ InSixty(dm.minutes)
  /\ WithinAxis(dm.kind, AngleDM(dm))

ValidDMS(dms) ==
  /\ RGe(dms.degrees, RInt(0))
  /\ InSixty(dms.minutes)
  /\ InSixty(dms.seconds)
  /\ WithinAxis(dms.kind, AngleDMS(dms))

PositiveHemi(kind) == IF kind = LAT THEN "N" ELSE "E"
NegativeHemi(kind) == IF kind = LAT THEN "S" ELSE "W"

\* clampToAxisRange as the specification words it
Saturated(kind, deg) ==
  IF RGt(deg, RInt(DEG_MAX(kind))) THEN RInt(DEG_MAX(kind))
  ELSE IF RLt(deg, RInt(-DEG_MAX(kind))) THEN RInt(-DEG_MAX(kind))
  ELSE deg

(***************************************************************************)
(* C1  DM round trip                                                       *)
(***************************************************************************)
\* C1: for every DD d within the axis range, dmToDD(ddToDM(d)) at the default
\* 2 decimals returns a DD of the same axis within 1e-4 of d.
C1_RoundTripDM ==
  (RanFromDD(<<"ddToDM", "dmToDD">>) /\ DefaultDecimals(DM_DECIMALS)
     /\ WithinAxis(orig.val.kind, orig.val.degrees))
  => /\ cur.form = "DD"
     /\ cur.val.kind = orig.val.kind
     /\ Close(cur.val.degrees, orig.val.degrees)

(***************************************************************************)
(* C2  DMS round trip                                                      *)
(***************************************************************************)
\* C2: for every DD d within the axis range, dmsToDD(ddToDMS(d)) at the
\* default 2 decimals returns a DD of the same axis within 1e-4 of d.
C2_RoundTripDMS ==
  (RanFromDD(<<"ddToDMS", "dmsToDD">>) /\ DefaultDecimals(DMS_DECIMALS)
     /\ WithinAxis(orig.val.kind, orig.val.degrees))
  => /\ cur.form = "DD"
     /\ cur.val.kind = orig.val.kind
     /\ Close(cur.val.degrees, orig.val.degrees)

\* a value in (-1, 0) whose seconds rounded up to 60 and carried into the
\* degree has gone through the round trip
C2_Witness ==
  /\ RanFromDD(<<"ddToDMS", "dmsToDD">>) /\ DefaultDecimals(DMS_DECIMALS)
  /\ RLt(orig.val.degrees, RInt(0)) /\ RGt(orig.val.degrees, RInt(-1))
  /\ prev.val.degrees = RInt(1) /\ prev.val.seconds = RInt(0)
  /\ cur.form = "DD"

(***************************************************************************)
(* C4  no partial result                                                   *)
(***************************************************************************)
ConvertedValid ==
  /\ Did("ddToDM") => ValidDM(cur.val)
  /\ Did("ddToDMS") => ValidDMS(cur.val)

\* C4 as stated: for every DD input, in range or not, and either value of
\* clamp, ddToDM and ddToDMS return a value whose angle lies within the axis
\* range with minutes and seconds in [0, 60).
C4_NoPartialResult == ConvertedValid

\* C4 amended: the same for every DD input within the axis range, and for
\* every DD input when clamp = true.
C4_ValidWhenInRangeOrClamped ==
  ((Did("ddToDM") \/ Did("ddToDMS"))
     /\ (opts.clamp \/ WithinAxis(prev.val.kind, prev.val.degrees)))
  => ConvertedValid

\* an out-of-range negative DD has been converted to DMS with clamp = true
C4_Witness ==
  /\ Did("ddToDMS") /\ opts.clamp
  /\ RLt(prev.val.degrees, RInt(-DEG_MAX(prev.val.kind)))
  /\ ValidDMS(cur.val)

(***************************************************************************)
(* C5  clamping                                                            *)
(***************************************************************************)
Unclamped == [opts EXCEPT !.clamp = FALSE]

ClampedInput == [prev.val EXCEPT !.degrees = Saturated(prev.val.kind, prev.val.degrees)]

\* C5: with clamp = true the conversion equals the unclamped conversion of the
\* DD saturated to the axis range: above the maximum {max, 0, positive
\* hemisphere}, below -max {max, 0, negative hemisphere}, in range unchanged.
C5_Clamping ==
  LET k == prev.val.kind
      d == prev.val.degrees
      max == RInt(DEG_MAX(k))
  IN  /\ (Did("ddToDM") /\ opts.clamp) =>
           /\ cur.val = ddToDM(ClampedInput, Unclamped)
           /\ RGt(d, max) => cur.val = DM(k, max, RInt(0), PositiveHemi(k))
           /\ RLt(d, RNeg(max)) => cur.val = DM(k, max, RInt(0), NegativeHemi(k))
           /\ WithinAxis(k, d) => cur.val = ddToDM(prev.val, Unclamped)
      /\ (Did("ddToDMS") /\ opts.clamp) =>
           /\ cur.val = ddToDMS(ClampedInput, Unclamped)
           /\ RGt(d, max) => cur.val = DMS(k, max, RInt(0), RInt(0), PositiveHemi(k))
           /\ RLt(d, RNeg(max)) =>
                cur.val = DMS(k, max, RInt(0), RInt(0), NegativeHemi(k))
           /\ WithinAxis(k, d) => cur.val = ddToDMS(prev.val, Unclamped)

\* LATITUDE 95 converted with clamp = true gave 90, 0, NORTH
C5_Witness ==
  /\ Did("ddToDM") /\ opts.clamp
  /\ prev.val = DD(LAT, RInt(95))
  /\ cur.val = DM(LAT, RInt(90), RInt(0), "N")

(***************************************************************************)
(* C6, C7  rollover                                                        *)
(***************************************************************************)
\* the value a conversion step works on: the input, saturated under clamp
Worked == IF opts.clamp THEN Saturated(prev.val.kind, prev.val.degrees)
          ELSE prev.val.degrees

WorkedInt == RTrunc(Worked)
WorkedFrac == RAbs(RSub(Worked, WorkedInt))

\* round(frac * 60, decimals)
RoundedMinutes == ToFixed(RMul(WorkedFrac, RInt(60)), DecimalsOr(opts, 2))

\* C6: ddToDM rolls over exactly when round(frac * 60, decimals) >= 60; then
\* it returns |degInt| + 1 and 0 minutes, otherwise |degInt| and the rounded
\* minutes, which are below 60 (45.99999 gives 46 and 0, 45.999 gives 45 and
\* 59.94 at 2 decimals).
C6_RolloverDM ==
  Did("ddToDM") =>
    /\ IF RGe(RoundedMinutes, RInt(60))
       THEN /\ cur.val.degrees = RAdd(RAbs(WorkedInt), RInt(1))
            /\ cur.val.minutes = RInt(0)
       ELSE /\ cur.val.degrees = RAbs(WorkedInt)
            /\ cur.val.minutes = RoundedMinutes
            /\ RLt(cur.val.minutes, RInt(60))
    /\ (prev.val = DD(LAT, Rat(4599999, 100000)) /\ DefaultDecimals(2)) =>
         (cur.val.degrees = RInt(46) /\ cur.val.minutes = RInt(0))
    /\ (prev.val = DD(LAT, Rat(45999, 1000)) /\ DefaultDecimals(2)) =>
         (cur.val.degrees = RInt(45) /\ cur.val.minutes = Rat(5994, 100))

\* LATITUDE -45.99999 rolled over to 46 degrees 0 minutes
C6_Witness ==
  /\ Did("ddToDM") /\ DefaultDecimals(2)
  /\ prev.val = DD(LAT, Rat(-4599999, 100000))
  /\ RGe(RoundedMinutes, RInt(60))
  /\ cur.val.degrees = RInt(46) /\ cur.val.minutes = RInt(0)

FlooredMinutes == RFloor(RMul(WorkedFrac, RInt(60)))

\* round(frac * 3600 - minutes * 60, decimals)
RoundedSeconds ==
  ToFixed(RSub(RMul(WorkedFrac, RInt(3600)), RMul(FlooredMinutes, RInt(60))),
          DecimalsOr(opts, 2))

SecondsCarry == RGe(RoundedSeconds, RInt(60))

CarriedMinutes == IF SecondsCarry THEN RAdd(FlooredMinutes, RInt(1)) ELSE FlooredMinutes

MinutesCarry == RGe(CarriedMinutes, RInt(60))

\* C7: ddToDMS takes minutes = floor(frac * 60) and seconds = round(frac * 3600
\* - minutes * 60, decimals); seconds >= 60 become 0 and carry 1 into the
\* minutes, minutes >= 60 then become 0 and carry 1 into the degree magnitude,
\* which happens only when the seconds carry pushed the minutes to 60
\* (45.9999 stays 45, 59, 59.64 at 2 decimals).
C7_RolloverDMS ==
  Did("ddToDMS") =>
    /\ cur.val.seconds = IF SecondsCarry THEN RInt(0) ELSE RoundedSeconds
    /\ cur.val.minutes = IF MinutesCarry THEN RInt(0) ELSE CarriedMinutes
    /\ cur.val.degrees = IF MinutesCarry THEN RAdd(RAbs(WorkedInt), RInt(1))
                         ELSE RAbs(WorkedInt)
    /\ MinutesCarry => (SecondsCarry /\ FlooredMinutes = RInt(59))
    /\ (prev.val = DD(LAT, Rat(459999, 10000)) /\ DefaultDecimals(2)) =>
         /\ cur.val.degrees = RInt(45)
         /\ cur.val.minutes = RInt(59)
         /\ cur.val.seconds = Rat(5964, 100)

\* the seconds of LATITUDE 45.999999 rounded to 60 and the carry reached the
\* degree
C7_Witness ==
  /\ Did("ddToDMS") /\ DefaultDecimals(2)
  /\ prev.val = DD(LAT, Rat(45999999, 1000000))
  /\ SecondsCarry /\ MinutesCarry
  /\ cur.val = DMS(LAT, RInt(46), RInt(0), RInt(0), "N")

(***************************************************************************)
(* C3, C8, C9, C10  parser                                                 *)
(***************************************************************************)
ParseIn == prev.val.input
ParseKind == prev.val.kind

\* a string that is a plain signed decimal once trimmed
PlainText == ParseIn.type = "string" /\ IsPlainDecimal(trim(ParseIn.text))

\* a string that is not: it goes through letter and token extraction
LooseText == ParseIn.type = "string" /\ ~IsPlainDecimal(trim(ParseIn.text))

UpperText == toUpperCase(trim(ParseIn.text))

\* the numeric tokens, in order
Tokens == LET t == MatchAllNums(UpperText, 1) IN [i \in 1..Len(t) |-> Number(t[i])]

\* the standalone hemisphere letter, NoHemi when there is none
Letter == hemiMatch(UpperText)

\* truncate(|deg|) + |min|/60 [+ |sec|/3600] of the tokens t
TokenMagnitude(t) ==
  RAdd(RAdd(RTrunc(RAbs(t[1])), RDiv(RAbs(t[2]), RInt(60))),
       IF Len(t) >= 3 THEN RDiv(RAbs(t[3]), RInt(3600)) ELSE RInt(0))

LetterSign(h) == IF h \in {"S", "W"} THEN -1 ELSE 1

TokenSign(t) == IF RLt(t[1], RInt(0)) THEN -1 ELSE 1

\* the input composes a signed value: a finite number, a plain decimal, or
\* tokens t whose minutes and seconds are below 60
HasComposed(t) ==
  \/ ParseIn.type = "number" /\ ParseIn.fin = "finite"
  \/ PlainText
  \/ /\ LooseText
     /\ Len(t) >= 1
     /\ Len(t) >= 2 => RLt(RAbs(t[2]), RInt(60))
     /\ Len(t) >= 3 => RLt(RAbs(t[3]), RInt(60))

\* that value, from the tokens t and the letter h
Composed(t, h) ==
  IF ParseIn.type = "number" THEN ParseIn.num
  ELSE IF PlainText THEN Number(trim(ParseIn.text))
  ELSE IF Len(t) = 1
  THEN (IF h = NoHemi THEN t[1] ELSE RMul(RInt(LetterSign(h)), RAbs(t[1])))
  ELSE RMul(RInt(IF h = NoHemi THEN TokenSign(t) ELSE LetterSign(h)),
            TokenMagnitude(t))

ParsedText(s, k) == ParseIn = StrInput(s) /\ ParseKind = k

\* C3: on every branch parseToDD returns a DD exactly when the composed signed
\* value v has |v| <= 90 (LATITUDE) or |v| <= 180 (LONGITUDE), the bounds
\* included ("90", "-90", "180", "-180" return those values); otherwise it
\* raises the axis range error and returns nothing.
C3_ParserRange ==
  Did("parseToDD") =>
    LET t == IF ParseIn.type = "string" THEN Tokens ELSE <<>>
        h == IF ParseIn.type = "string" THEN Letter ELSE NoHemi
        has == HasComposed(t)
        v == Composed(t, h)
    IN  /\ cur.form = "DD" =>
             (cur.val.kind = ParseKind /\ WithinAxis(ParseKind, cur.val.degrees))
        /\ cur.form = "DD" => has
        /\ has => IF WithinAxis(ParseKind, v)
                  THEN cur = Ok("DD", DD(ParseKind, v))
                  ELSE cur = Raise(ErrRange(ParseKind))
        /\ ParsedText(<<"9", "0">>, LAT) => cur = Ok("DD", DD(LAT, RInt(90)))
        /\ ParsedText(<<"-", "9", "0">>, LAT) => cur = Ok("DD", DD(LAT, RInt(-90)))
        /\ ParsedText(<<"1", "8", "0">>, LON) => cur = Ok("DD", DD(LON, RInt(180)))
        /\ ParsedText(<<"-", "1", "8", "0">>, LON) =>
             cur = Ok("DD", DD(LON, RInt(-180)))

\* a three-token text whose composed value is below -90 raised the latitude
\* range error
C3_Witness ==
  /\ Did("parseToDD") /\ ParseKind = LAT /\ LooseText
  /\ cur = Raise(ErrRange(LAT))
  /\ LET t == Tokens
     IN  Len(t) = 3 /\ HasComposed(t) /\ RLt(Composed(t, Letter), RInt(-90))

\* C8: when the text holds a standalone hemisphere letter the letter alone
\* fixes the sign of the result (S, W: <= 0; N, E: >= 0) whatever the sign of
\* the degree token, with 1, 2 and 3 or more numbers ("-45 30 N" is +45.5).
C8_LetterPrecedence ==
  (Did("parseToDD") /\ cur.form = "DD" /\ LooseText) =>
    LET t == Tokens
        h == Letter
    IN  h # NoHemi =>
          /\ h \in {"S", "W"} => RLe(cur.val.degrees, RInt(0))
          /\ h \in {"N", "E"} => RGe(cur.val.degrees, RInt(0))
          /\ RAbs(cur.val.degrees) =
               (IF Len(t) = 1 THEN RAbs(t[1]) ELSE TokenMagnitude(t))
          /\ ParseIn = StrInput(<<"-", "4", "5", " ", "3", "0", " ", "N">>) =>
               cur.val.degrees = Rat(91, 2)

\* "-45 30 N" was parsed as latitude
C8_Witness ==
  /\ Did("parseToDD") /\ ParseKind = LAT
  /\ ParseIn = StrInput(<<"-", "4", "5", " ", "3", "0", " ", "N">>)
  /\ Letter = "N" /\ RLt(Tokens[1], RInt(0))
  /\ cur = Ok("DD", DD(LAT, Rat(91, 2)))

\* C9: with 2 numeric tokens, or 3 or more (the rest ignored), and no
\* hemisphere letter, the result is sign * (truncate(|deg|) + |min|/60
\* [+ |sec|/3600]), sign being -1 for a negative degree token and +1
\* otherwise (also for "-0"); the fraction of the degree token is dropped.
C9_Composition ==
  (Did("parseToDD") /\ cur.form = "DD" /\ LooseText) =>
    LET t == Tokens
    IN  (Letter = NoHemi /\ Len(t) >= 2) =>
          cur.val.degrees = RMul(RInt(TokenSign(t)), TokenMagnitude(t))

\* "-0.5 30 15 99" was parsed: negative sign, fraction dropped, fourth token
\* ignored
C9_Witness ==
  /\ Did("parseToDD") /\ cur.form = "DD" /\ LooseText
  /\ ParseIn.text = <<"-", "0", ".", "5", " ", "3", "0", " ", "1", "5", " ", "9", "9">>
  /\ Letter = NoHemi /\ Len(Tokens) = 4
  /\ cur.val.degrees = RNeg(RAdd(Rat(1, 2), Rat(15, 3600)))

\* C10: for a string that is not a plain decimal, the unrecognized-format
\* error is raised exactly when there is no numeric token, the minutes error
\* whenever a second token has magnitude >= 60, the seconds error whenever
\* there is a third token of magnitude >= 60 after minutes below 60; no DD is
\* returned then.
C10_ParserErrors ==
  (Did("parseToDD") /\ LooseText) =>
    LET t == Tokens
    IN  /\ cur = Raise(ErrUnrecognized) <=> Len(t) = 0
        /\ (Len(t) >= 2 /\ RGe(RAbs(t[2]), RInt(60))) => cur = Raise(ErrMinutesParse)
        /\ (Len(t) >= 3 /\ RLt(RAbs(t[2]), RInt(60)) /\ RGe(RAbs(t[3]), RInt(60))) =>
             cur = Raise(ErrSecondsParse)

\* a text with valid minutes and 60 seconds raised the seconds error
C10_Witness ==
  /\ Did("parseToDD") /\ LooseText
  /\ cur = Raise(ErrSecondsParse)
  /\ LET t == Tokens IN Len(t) >= 3 /\ t[2] = RInt(30) /\ t[3] = RInt(60)

(***************************************************************************)
(* C11  minutes and seconds range errors of dmToDD and dmsToDD             *)
(***************************************************************************)
OutOfSixty(x) == RLt(x, RInt(0)) \/ RGe(x, RInt(60))

\* C11: dmToDD raises the minutes-range error iff minutes < 0 or minutes >= 60;
\* dmsToDD raises it under the same condition and, when the minutes are valid,
\* raises the seconds-range error iff seconds < 0 or seconds >= 60; in these
\* cases no DD is returned.
C11_UnitRangeErrors ==
  /\ Did("dmToDD") =>
        /\ (cur = Raise(ErrMinutes)) <=> OutOfSixty(prev.val.minutes)
        /\ OutOfSixty(prev.val.minutes) => cur.form # "DD"
  /\ Did("dmsToDD") =>
        /\ (cur = Raise(ErrMinutes)) <=> OutOfSixty(prev.val.minutes)
        /\ ~OutOfSixty(prev.val.minutes) =>
              ((cur = Raise(ErrSeconds)) <=> OutOfSixty(prev.val.seconds))
        /\ (OutOfSixty(prev.val.minutes) \/ OutOfSixty(prev.val.seconds))
              => cur.form # "DD"

\* dmToDD has refused minutes of exactly 60 on an otherwise valid value
C11_Witness ==
  /\ Did("dmToDD")
  /\ prev.val.minutes = RInt(60) /\ prev.val.degrees = RInt(45)
  /\ cur = Raise(ErrMinutes)

(***************************************************************************)
(* C12  dmToDD and dmsToDD validate the range and never clamp              *)
(***************************************************************************)
ValidUnits(v) ==
  /\ ~OutOfSixty(v.minutes)
  /\ "seconds" \in DOMAIN v => ~OutOfSixty(v.seconds)

\* the sign a DM or DMS value carries: its letter if it has one, else the
\* sign of its degrees field
CarriedSign(v) ==
  IF v.hemi \in {"S", "W"} THEN -1
  ELSE IF v.hemi \in {"N", "E"} THEN 1
  ELSE IF RLt(v.degrees, RInt(0)) THEN -1 ELSE 1

\* the signed value a DM or DMS value composes to
SignedAngle(v) ==
  LET mag == RAdd(RAdd(RAbs(v.degrees), RDiv(v.minutes, RInt(60))),
                  IF "seconds" \in DOMAIN v THEN RDiv(v.seconds, RInt(3600))
                  ELSE RInt(0))
  IN  RMul(RInt(CarriedSign(v)), mag)

\* C12: with valid minutes (and seconds), dmToDD and dmsToDD return a DD whose
\* degrees equal the composed signed value exactly when it lies within the
\* inclusive axis range, and raise the axis range error otherwise; every DD
\* they return is within the axis range.
C12_NeverClamps ==
  ((Did("dmToDD") \/ Did("dmsToDD")) /\ ValidUnits(prev.val)) =>
    LET k == prev.val.kind
        v == SignedAngle(prev.val)
    IN  /\ WithinAxis(k, v) => cur = Ok("DD", DD(k, v))
        /\ ~WithinAxis(k, v) => cur = Raise(ErrRange(k))
        /\ cur.form = "DD" => WithinAxis(k, cur.val.degrees)

\* LATITUDE 90 degrees 30 minutes (and 0 seconds) has been refused by dmsToDD
C12_Witness ==
  /\ Did("dmsToDD")
  /\ prev.val.kind = LAT /\ prev.val.degrees = RInt(90)
  /\ prev.val.minutes = RInt(30) /\ prev.val.seconds = RInt(0)
  /\ cur = Raise(ErrRange(LAT))

(***************************************************************************)
(* C13  displayed precision                                                *)
(***************************************************************************)
\* the fields of a text, split at its spaces
RECURSIVE Fields(_, _)
Fields(s, acc) ==
  IF s = <<>> THEN <<acc>>
  ELSE IF Head(s) = " " THEN <<acc>> \o Fields(Tail(s), <<>>)
  ELSE Fields(Tail(s), Append(acc, Head(s)))

\* a field without its unit mark
Unmarked(f) == SubSeq(f, 1, Len(f) - 1)

\* the number of digits a numeral shows after its decimal point
ShownDecimals(t) ==
  IF \E i \in 1..Len(t) : t[i] = "."
  THEN Len(t) - (CHOOSE i \in 1..Len(t) : t[i] = ".")
  ELSE 0

\* the call before the last one
CallBefore == IF Len(path) < 2 THEN "" ELSE path[Len(path) - 1]

\* C13: formatDM called without a decimals argument on the result of
\* ddToDM(dd, {decimals: k}) shows the minutes with k decimals, and formatDMS
\* called without a decimals argument on the result of ddToDMS(dd, {decimals: k})
\* shows the seconds with k decimals.
C13_DisplayedPrecision ==
  /\ (Did("formatDM") /\ CallBefore = "ddToDM" /\ arg = {} /\ opts.decimals # {}) =>
       ShownDecimals(Unmarked(Fields(cur.val, <<>>)[2])) = DecimalsOr(opts, DM_DECIMALS)
  /\ (Did("formatDMS") /\ CallBefore = "ddToDMS" /\ arg = {} /\ opts.decimals # {}) =>
       ShownDecimals(Unmarked(Fields(cur.val, <<>>)[3])) = DecimalsOr(opts, DMS_DECIMALS)

(***************************************************************************)
(* C14  shape of the ddToDM result                                         *)
(***************************************************************************)
AxisHemis(kind) == IF kind = LAT THEN {"N", "S"} ELSE {"E", "W"}

NonNegativeInteger(x) == RIsInt(x) /\ RGe(x, RInt(0))

\* C14: for every DD and every decimals >= 0, with or without clamp, ddToDM
\* returns a DM of the input's axis with degrees a non-negative integer,
\* minutes in [0, 60) of at most `decimals` fractional digits, and a
\* hemisphere that is present and belongs to the axis.
C14_ShapeDM ==
  Did("ddToDM") =>
    /\ cur.form = "DM"
    /\ cur.val.kind = prev.val.kind
    /\ NonNegativeInteger(cur.val.degrees)
    /\ InSixty(cur.val.minutes)
    /\ HasDecimals(cur.val.minutes, DecimalsOr(opts, DM_DECIMALS))
    /\ cur.val.hemi \in AxisHemis(prev.val.kind)

\* a negative longitude has been converted at 3 decimals, without clamp, to
\* minutes that need all 3 of them
C14_Witness ==
  /\ Did("ddToDM") /\ opts = [decimals |-> {3}, clamp |-> FALSE]
  /\ prev.val.kind = LON /\ RLt(prev.val.degrees, RInt(0))
  /\ ~HasDecimals(cur.val.minutes, 2)
  /\ cur.val.hemi = "W"

(***************************************************************************)
(* C15  shape of the ddToDMS result                                        *)
(***************************************************************************)
\* C15: for every DD and every decimals >= 0, with or without clamp, ddToDMS
\* returns a DMS of the input's axis with degrees a non-negative integer,
\* minutes an integer in [0, 59], seconds in [0, 60) of at most `decimals`
\* fractional digits, and a hemisphere that is present and belongs to the
\* axis; an integer-valued DD yields minutes = 0 and seconds = 0.
C15_ShapeDMS ==
  Did("ddToDMS") =>
    /\ cur.form = "DMS"
    /\ cur.val.kind = prev.val.kind
    /\ NonNegativeInteger(cur.val.degrees)
    /\ NonNegativeInteger(cur.val.minutes) /\ RLe(cur.val.minutes, RInt(59))
    /\ InSixty(cur.val.seconds)
    /\ HasDecimals(cur.val.seconds, DecimalsOr(opts, DMS_DECIMALS))
    /\ cur.val.hemi \in AxisHemis(prev.val.kind)
    /\ RIsInt(prev.val.degrees) =>
         cur.val.minutes = RInt(0) /\ cur.val.seconds = RInt(0)

\* a value just below a whole degree has had its seconds and minutes carried
\* all the way into the degrees
C15_Witness ==
  /\ Did("ddToDMS") /\ ~opts.clamp
  /\ ~RIsInt(prev.val.degrees)
  /\ cur.val.degrees = RAdd(RAbs(RTrunc(prev.val.degrees)), RInt(1))
  /\ cur.val.minutes = RInt(0) /\ cur.val.seconds = RInt(0)

(***************************************************************************)
(* C16  parsePairToDD: latitude first                                      *)
(***************************************************************************)
\* the two parses of the pair call that has just returned
AsLatitude == parseToDD(prev.val[1], LAT)
AsLongitude == parseToDD(prev.val[2], LON)

\* C16: parsePairToDD parses its first argument as LATITUDE and then its
\* second as LONGITUDE and returns them in that order; if the first fails its
\* error is raised whatever the second is, if only the second fails its error
\* is raised, and a pair is returned only when both parses succeed.
C16_PairOrder ==
  Did("parsePairToDD") =>
    /\ AsLatitude.form = "ERR" => cur = AsLatitude
    /\ (AsLatitude.form = "DD" /\ AsLongitude.form = "ERR") => cur = AsLongitude
    /\ (AsLatitude.form = "DD" /\ AsLongitude.form = "DD") =>
         /\ cur = Ok("DDPAIR", <<AsLatitude.val, AsLongitude.val>>)
         /\ cur.val[1].kind = LAT /\ cur.val[2].kind = LON
    /\ cur.form = "DDPAIR" => (AsLatitude.form = "DD" /\ AsLongitude.form = "DD")

\* both arguments were invalid, for different reasons, and the error raised
\* is the latitude one
C16_Witness ==
  /\ Did("parsePairToDD")
  /\ prev.val[1] = StrInput(<<"9", "1">>)
  /\ prev.val[2] = StrInput(<<"i", "n", "v", "a", "l", "i", "d">>)
  /\ cur = Raise(ErrRange(LAT))

(***************************************************************************)
(* C17  hemisphere and axis                                                *)
(***************************************************************************)
\* C17: dirFromSign yields, for LATITUDE, N when x >= 0 and S when x < 0 and,
\* for LONGITUDE, E when x >= 0 and W when x < 0, zero mapping to the positive
\* hemisphere; detectKindFromHemi applied to the result gives back the axis.
C17_HemisphereAxis ==
  /\ Did("dirFromSign") =>
       LET k == prev.val.kind
           x == prev.val.degrees
       IN  /\ cur.val \in AxisHemis(k)
           /\ RGe(x, RInt(0)) => cur.val = PositiveHemi(k)
           /\ RLt(x, RInt(0)) => cur.val = NegativeHemi(k)
  /\ RanFromDD(<<"dirFromSign", "detectKindFromHemi">>) =>
       cur = Ok("KIND", orig.val.kind)

\* the hemisphere of a zero longitude, E, has been mapped back to LONGITUDE
C17_Witness ==
  /\ RanFromDD(<<"dirFromSign", "detectKindFromHemi">>)
  /\ orig.val = DD(LON, RInt(0))
  /\ prev = Ok("HEMI", "E")
  /\ cur = Ok("KIND", LON)

(***************************************************************************)
(* C18  formatter: magnitude, hemisphere, precision                        *)
(***************************************************************************)
\* the letter the formatters show for a DM or DMS value
ShownHemi(v) ==
  IF v.hemi # NoHemi THEN v.hemi
  ELSE IF RGe(v.degrees, RInt(0)) THEN PositiveHemi(v.kind) ELSE NegativeHemi(v.kind)

\* the field f is the numeral of x followed by the unit mark
ShowsNumber(f, mark, x) ==
  /\ Len(f) >= 2 /\ f[Len(f)] = mark
  /\ Number(Unmarked(f)) = x

\* the field f is x rounded to k decimals, with exactly k digits after the
\* point, followed by the unit mark
ShowsRounded(f, mark, x, k) ==
  /\ ShowsNumber(f, mark, ToFixed(x, k))
  /\ ShownDecimals(Unmarked(f)) = k

\* C18: formatDM and formatDMS render the absolute value of degrees, never a
\* minus sign, followed by the stored hemisphere when there is one and by the
\* hemisphere of the sign of degrees otherwise; formatDD always derives the
\* letter from the sign of degrees; minutes (DM), seconds (DMS) and degrees
\* (DD) are rounded to the decimals argument, 2, 2 and 5 when omitted.
C18_Formatter ==
  LET f == Fields(cur.val, <<>>)
      v == prev.val
  IN  /\ Did("formatDM") =>
           /\ Len(f) = 3
           /\ ShowsNumber(f[1], "~", RAbs(v.degrees)) /\ f[1][1] # "-"
           /\ ShowsRounded(f[2], "'", v.minutes, ArgOr(arg, 2))
           /\ f[3] = <<ShownHemi(v)>>
      /\ Did("formatDMS") =>
           /\ Len(f) = 4
           /\ ShowsNumber(f[1], "~", RAbs(v.degrees)) /\ f[1][1] # "-"
           /\ ShowsNumber(f[2], "'", v.minutes)
           /\ ShowsRounded(f[3], "\"", v.seconds, ArgOr(arg, 2))
           /\ f[4] = <<ShownHemi(v)>>
      /\ Did("formatDD") =>
           /\ Len(f) = 2
           /\ ShowsRounded(f[1], "~", RAbs(v.degrees), ArgOr(arg, 5)) /\ f[1][1] # "-"
           /\ f[2] = <<IF RGe(v.degrees, RInt(0)) THEN PositiveHemi(v.kind)
                       ELSE NegativeHemi(v.kind)>>

\* a DM value of negative degrees that stores N was rendered, with the
\* decimals argument omitted, as 45 degrees 51.26 minutes N
C18_Witness ==
  /\ Did("formatDM") /\ arg = {}
  /\ prev.val = DM(LAT, RInt(-45), Rat(51264, 1000), "N")
  /\ cur.val = <<"4", "5", "~", " ", "5", "1", ".", "2", "6", "'", " ", "N">>

(***************************************************************************)
(* C19  sign preservation of ddToDM                                        *)
(***************************************************************************)
\* C19: for every DD and every decimals, rollover and values in (-1, 0)
\* included, the hemisphere returned by ddToDM is the negative one (S, W) if
\* dd.degrees < 0 and the positive one (N, E) if dd.degrees >= 0.
C19_SignPreserved ==
  Did("ddToDM") =>
    cur.val.hemi = (IF RLt(prev.val.degrees, RInt(0)) THEN NegativeHemi(prev.val.kind)
                    ELSE PositiveHemi(prev.val.kind))

(***************************************************************************)
(* C20  the canonical form is stable                                       *)
(***************************************************************************)
\* C20: for every DD d within the axis range and every decimals k,
\* ddToDM(dmToDD(ddToDM(d, k)), k) equals ddToDM(d, k) and
\* ddToDMS(dmsToDD(ddToDMS(d, k)), k) equals ddToDMS(d, k) in every field, the
\* hemisphere of a small negative d included.
C20_CanonicalStable ==
  /\ (RanFromDD(<<"ddToDM", "dmToDD", "ddToDM">>)
        /\ WithinAxis(orig.val.kind, orig.val.degrees))
       => cur = Ok("DM", ddToDM(orig.val, opts))
  /\ (RanFromDD(<<"ddToDMS", "dmsToDD", "ddToDMS">>)
        /\ WithinAxis(orig.val.kind, orig.val.degrees))
       => cur = Ok("DMS", ddToDMS(orig.val, opts))

(***************************************************************************)
(* C21  no range validation without clamp                                  *)
(***************************************************************************)
\* 1 when the conversion that has just returned carried into the degrees
DegreeCarry ==
  IF Did("ddToDM") THEN (IF RGe(RoundedMinutes, RInt(60)) THEN 1 ELSE 0)
  ELSE (IF MinutesCarry THEN 1 ELSE 0)

\* C21: without clamp ddToDM and ddToDMS return, never raising, for every
\* finite DD, and for a DD beyond the axis maximum the returned degree
\* magnitude is |truncate(degrees)|, plus 1 on rollover: the value is neither
\* validated nor clamped.
C21_NoValidationWithoutClamp ==
  ((Did("ddToDM") \/ Did("ddToDMS")) /\ ~opts.clamp) =>
    /\ cur.form = (IF Did("ddToDM") THEN "DM" ELSE "DMS")
    /\ ~WithinAxis(prev.val.kind, prev.val.degrees) =>
         cur.val.degrees =
           RAdd(RAbs(RTrunc(prev.val.degrees)), RInt(DegreeCarry))

\* latitude 95.999999 has been converted without clamp and rolled over to 96
C21_Witness ==
  /\ Did("ddToDM") /\ ~opts.clamp
  /\ prev.val = DD(LAT, Rat(95999999, 1000000))
  /\ cur.val.degrees = RInt(96) /\ cur.val.minutes = RInt(0)

(***************************************************************************)
(* C22  where the hemisphere comes from                                    *)
(***************************************************************************)
\* hemisphereFromSign as the specification words it
SignHemi(kind, x) == IF RGe(x, RInt(0)) THEN PositiveHemi(kind) ELSE NegativeHemi(kind)

\* the rolled degree value of ddToDM
RolledDegree ==
  IF RGe(WorkedInt, RInt(0)) THEN RAdd(WorkedInt, RInt(1)) ELSE RSub(WorkedInt, RInt(1))

\* C22: the hemisphere returned by ddToDMS is that of the original (with clamp,
\* the clamped) signed value, also when the cascade incremented the degree;
\* ddToDM on rollover derives the hemisphere from the rolled degree value
\* (degInt + 1 if degInt >= 0, else degInt - 1).
C22_HemisphereSource ==
  /\ Did("ddToDMS") => cur.val.hemi = SignHemi(prev.val.kind, Worked)
  /\ (Did("ddToDM") /\ RGe(RoundedMinutes, RInt(60))) =>
       cur.val.hemi = SignHemi(prev.val.kind, RolledDegree)

\* a value in (-1, 0) whose seconds and minutes carried into the degree has
\* kept its negative hemisphere through ddToDMS
C22_Witness ==
  /\ Did("ddToDMS") /\ MinutesCarry
  /\ RLt(prev.val.degrees, RInt(0)) /\ RGt(prev.val.degrees, RInt(-1))
  /\ cur.val.degrees = RInt(1)
  /\ cur.val.hemi = NegativeHemi(prev.val.kind)

(***************************************************************************)
(* C23  sign resolution of dmToDD and dmsToDD                              *)
(***************************************************************************)
\* base = |degrees| + minutes/60 [+ seconds/3600]
Base(v) ==
  LET dm == RAdd(RAbs(v.degrees), RDiv(v.minutes, RInt(60)))
  IN  IF "seconds" \in DOMAIN v THEN RAdd(dm, RDiv(v.seconds, RInt(3600))) ELSE dm

\* C23: in the DD returned by dmToDD and dmsToDD a hemisphere, when present,
\* alone fixes the sign (S or W gives -base, N or E gives +base) even if the
\* degrees field is negative; with no hemisphere the result is -base if
\* degrees < 0 and +base otherwise.
C23_SignResolution ==
  ((Did("dmToDD") \/ Did("dmsToDD")) /\ cur.form = "DD") =>
    LET v == prev.val
        x == cur.val.degrees
    IN  /\ v.hemi \in {"S", "W"} => x = RNeg(Base(v))
        /\ v.hemi \in {"N", "E"} => x = Base(v)
        /\ (v.hemi = NoHemi /\ RLt(v.degrees, RInt(0))) => x = RNeg(Base(v))
        /\ (v.hemi = NoHemi /\ RGe(v.degrees, RInt(0))) => x = Base(v)

\* -45 degrees 30 minutes N has been converted to +45.5
C23_Witness ==
  /\ Did("dmToDD")
  /\ prev.val = DM(LAT, RInt(-45), RInt(30), "N")
  /\ cur = Ok("DD", DD(LAT, Rat(455, 10)))

(***************************************************************************)
(* C24  rollover preserves the represented magnitude                       *)
(***************************************************************************)
\* round(x, k) of a non-negative x: its whole part plus its rounded fraction
RoundTo(x, k) == RAdd(RFloor(x), ToFixed(RSub(x, RFloor(x)), k))

\* the magnitude a DM holds in minutes, a DMS in seconds
TotalMinutes(dm) == RAdd(RMul(dm.degrees, RInt(60)), dm.minutes)
TotalSeconds(dms) ==
  RAdd(RAdd(RMul(dms.degrees, RInt(3600)), RMul(dms.minutes, RInt(60))), dms.seconds)

\* C24: with v the degrees converted (clamped when clamp = true) and k the
\* decimals, ddToDM returns degrees * 60 + minutes = round(|v| * 60, k) and
\* ddToDMS returns degrees * 3600 + minutes * 60 + seconds =
\* round(|v| * 3600, k); a carry never changes this total.
C24_MagnitudePreserved ==
  /\ Did("ddToDM") =>
       TotalMinutes(cur.val)
         = RoundTo(RMul(RAbs(Worked), RInt(60)), DecimalsOr(opts, 2))
  /\ Did("ddToDMS") =>
       TotalSeconds(cur.val)
         = RoundTo(RMul(RAbs(Worked), RInt(3600)), DecimalsOr(opts, 2))

\* -45.999999 has been converted to 46 degrees 0 minutes 0 seconds, the
\* carry having gone through the minutes into the degrees
C24_Witness ==
  /\ Did("ddToDMS") /\ MinutesCarry
  /\ prev.val.degrees = Rat(-45999999, 1000000)
  /\ TotalSeconds(cur.val) = RInt(165600)

(***************************************************************************)
(* C25  the formatters and a full 60                                       *)
(***************************************************************************)
\* the number a field of the rendered text shows
Shown(i) == Number(Unmarked(Fields(cur.val, <<>>)[i]))

\* C25: for every DM with minutes in [0, 60) and every DMS with seconds in
\* [0, 60), values converted with more decimals than the formatter is given
\* included, formatDM renders a minutes figure strictly below 60 and formatDMS
\* a seconds figure strictly below 60, and parseToDD accepts the rendered text
\* of a converted value.
C25_NeverSixty ==
  /\ (Did("formatDM") /\ InSixty(prev.val.minutes)) => RLt(Shown(2), RInt(60))
  /\ (Did("formatDMS") /\ InSixty(prev.val.seconds)) => RLt(Shown(3), RInt(60))
  /\ (RanFromDD(<<"ddToDM", "formatDM", "parseFormatted">>)
        \/ RanFromDD(<<"ddToDMS", "formatDMS", "parseFormatted">>))
       => cur \notin {Raise(ErrMinutesParse), Raise(ErrSecondsParse)}

(***************************************************************************)
(* C26  round trip through text                                            *)
(***************************************************************************)
\* the input was within its axis range and the formatter was given the
\* decimals of the conversion (both omitted, or both k)
SameDecimals == WithinAxis(orig.val.kind, orig.val.degrees) /\ arg = opts.decimals

\* 0.5 * 10^-k
HalfUnit(k) == Rat(1, 2 * Pow10(k))

\* C26: for every DD d within its axis range and the same decimals k for
\* conversion and formatting, parsing formatDM(ddToDM(d, k), k) back returns
\* the DD that dmToDD(ddToDM(d, k)) returns, parsing formatDMS(ddToDMS(d, k), k)
\* back returns the DD that dmsToDD(ddToDMS(d, k)) returns, and parsing
\* formatDD(d, k) back returns a DD within 0.5 * 10^-k of d; none raises.
C26_TextRoundTrip ==
  /\ (RanFromDD(<<"ddToDM", "formatDM", "parseFormatted">>) /\ SameDecimals) =>
       /\ cur.form = "PARSED"
       /\ Ok("DD", cur.val) = dmToDD(ddToDM(orig.val, opts))
  /\ (RanFromDD(<<"ddToDMS", "formatDMS", "parseFormatted">>) /\ SameDecimals) =>
       /\ cur.form = "PARSED"
       /\ Ok("DD", cur.val) = dmsToDD(ddToDMS(orig.val, opts))
  /\ (RanFromDD(<<"formatDD", "parseFormatted">>)
        /\ WithinAxis(orig.val.kind, orig.val.degrees)) =>
       /\ cur.form = "PARSED"
       /\ cur.val.kind = orig.val.kind
       /\ RLe(RAbs(RSub(cur.val.degrees, orig.val.degrees)), HalfUnit(ArgOr(arg, 5)))

\* latitude -45.123456 went through ddToDMS, formatDMS and the parser at 3
\* decimals and came back negative
C26_Witness ==
  /\ RanFromDD(<<"ddToDMS", "formatDMS", "parseFormatted">>)
  /\ orig.val = DD(LAT, Rat(-45123456, 1000000))
  /\ opts.decimals = {3} /\ arg = {3}
  /\ cur.form = "PARSED" /\ RLt(cur.val.degrees, RInt(-45))

(***************************************************************************)
(* C27  a clamped conversion converts back                                 *)
(***************************************************************************)
\* C27: with clamp = true, for every finite DD d, in or out of the axis range,
\* and every decimals, dmToDD(ddToDM(d)) and dmsToDD(ddToDMS(d)) return without
\* raising a DD within the axis range: rollover after clamping never pushes
\* the magnitude above the axis maximum.
C27_ClampedConvertsBack ==
  ((RanFromDD(<<"ddToDM", "dmToDD">>) \/ RanFromDD(<<"ddToDMS", "dmsToDD">>))
     /\ opts.clamp) =>
    /\ cur.form = "DD"
    /\ cur.val.kind = orig.val.kind
    /\ WithinAxis(cur.val.kind, cur.val.degrees)

\* longitude -185.999999 was clamped to 180 degrees 0 minutes W and converted
\* back to -180
C27_Witness ==
  /\ RanFromDD(<<"ddToDM", "dmToDD">>) /\ opts.clamp
  /\ orig.val = DD(LON, Rat(-185999999, 1000000))
  /\ prev.val = DM(LON, RInt(180), RInt(0), "W")
  /\ cur = Ok("DD", DD(LON, RInt(-180)))

(***************************************************************************)
(* C28  error precedence                                                   *)
(***************************************************************************)
\* the degree alone is beyond the axis maximum
DegreeBeyond(kind, deg) == RGt(RTrunc(RAbs(deg)), RInt(DEG_MAX(kind)))

\* what a text with tokens t violates
BadMinutes(t) == Len(t) >= 2 /\ RGe(RAbs(t[2]), RInt(60))
BadSeconds(t) == Len(t) >= 3 /\ RGe(RAbs(t[3]), RInt(60))

\* C28: parseToDD (2- and 3+-number branches) and dmsToDD check minutes, then
\* seconds, then the axis range and raise on the first one violated: minutes
\* out of range together with seconds out of range and/or a degree beyond the
\* axis gives the minutes error, seconds out of range together with a degree
\* beyond the axis gives the seconds error, and the seconds and range errors
\* are raised only after the earlier checks passed.
C28_ErrorPrecedence ==
  /\ (Did("parseToDD") /\ LooseText) =>
       LET t == Tokens
           k == ParseKind
       IN  /\ (BadMinutes(t) /\ (BadSeconds(t) \/ DegreeBeyond(k, t[1])))
                => cur = Raise(ErrMinutesParse)
           /\ (~BadMinutes(t) /\ BadSeconds(t) /\ DegreeBeyond(k, t[1]))
                => cur = Raise(ErrSecondsParse)
           /\ cur = Raise(ErrSecondsParse) => ~BadMinutes(t)
           /\ cur = Raise(ErrRange(k)) => (~BadMinutes(t) /\ ~BadSeconds(t))
  /\ Did("dmsToDD") =>
       LET v == prev.val
       IN  /\ (OutOfSixty(v.minutes)
                 /\ (OutOfSixty(v.seconds) \/ DegreeBeyond(v.kind, v.degrees)))
                => cur = Raise(ErrMinutes)
           /\ (~OutOfSixty(v.minutes) /\ OutOfSixty(v.seconds)
                 /\ DegreeBeyond(v.kind, v.degrees))
                => cur = Raise(ErrSeconds)
           /\ cur = Raise(ErrSeconds) => ~OutOfSixty(v.minutes)
           /\ cur = Raise(ErrRange(v.kind))
                => (~OutOfSixty(v.minutes) /\ ~OutOfSixty(v.seconds))

\* "91 60 60" as a latitude, wrong on all three counts, raised the minutes
\* error
C28_Witness ==
  /\ Did("parseToDD")
  /\ ParsedText(<<"9", "1", " ", "6", "0", " ", "6", "0">>, LAT)
  /\ cur = Raise(ErrMinutesParse)

(***************************************************************************)
(* C29  hemisphere and axis are not cross-checked                          *)
(***************************************************************************)
\* a letter of the other axis
Foreign(kind, h) == h \in Hemisphere \ AxisHemis(kind)

\* the letter of the axis that has the sign of h
OwnLetter(kind, h) == IF h \in {"S", "W"} THEN NegativeHemi(kind) ELSE PositiveHemi(kind)

\* C29: dmToDD, dmsToDD and parseToDD accept a hemisphere of the other axis
\* (E or W with LATITUDE, N or S with LONGITUDE): they raise nothing for it,
\* apply its sign as usual (W and S negative, E and N positive) and keep the
\* axis passed in, so the outcome is that of the axis's own letter of the
\* same sign.
C29_NoCrossCheck ==
  /\ (Did("dmToDD") /\ Foreign(prev.val.kind, prev.val.hemi)) =>
       /\ cur = dmToDD([prev.val EXCEPT !.hemi = OwnLetter(prev.val.kind, prev.val.hemi)])
       /\ cur.form = "DD" =>
            /\ cur.val.kind = prev.val.kind
            /\ RSign(cur.val.degrees) \in {0, LetterSign(prev.val.hemi)}
  /\ (Did("dmsToDD") /\ Foreign(prev.val.kind, prev.val.hemi)) =>
       /\ cur = dmsToDD([prev.val EXCEPT !.hemi = OwnLetter(prev.val.kind, prev.val.hemi)])
       /\ cur.form = "DD" =>
            /\ cur.val.kind = prev.val.kind
            /\ RSign(cur.val.degrees) \in {0, LetterSign(prev.val.hemi)}
  /\ (Did("parseToDD") /\ LooseText) =>
       LET t == Tokens
           h == Letter
           k == ParseKind
       IN  (Foreign(k, h) /\ HasComposed(t)) =>
             IF WithinAxis(k, Composed(t, h))
             THEN /\ cur = Ok("DD", DD(k, Composed(t, h)))
                  /\ RSign(cur.val.degrees) \in {0, LetterSign(h)}
             ELSE cur = Raise(ErrRange(k))

\* 45 degrees 30 minutes W has been converted as a latitude to -45.5
C29_Witness ==
  /\ Did("dmToDD")
  /\ prev.val = DM(LAT, RInt(45), RInt(30), "W")
  /\ cur = Ok("DD", DD(LAT, Rat(-455, 10)))

(***************************************************************************)
(* C30  the fast path of parseToDD                                         *)
(***************************************************************************)
\* the outcome of the fast path for the numeric value v
FastResult(v) ==
  IF WithinAxis(ParseKind, v)
  THEN Ok("DD", DD(ParseKind, v))
  ELSE Raise(ErrRange(ParseKind))

\* C30: parseToDD returns a finite number, or a string that after trimming
\* is a plain signed decimal, as {axis, degrees} with degrees exactly the
\* numeric value, subject only to the range check of the axis; NaN and the
\* two infinities raise the invalid-number error; an input that is neither
\* a number nor a string raises the unsupported-input error.
C30_FastPath ==
  Did("parseToDD") =>
    /\ (ParseIn.type = "number" /\ ParseIn.fin = "finite") =>
         cur = FastResult(ParseIn.num)
    /\ PlainText => cur = FastResult(Number(trim(ParseIn.text)))
    /\ (ParseIn.type = "number" /\ ParseIn.fin # "finite") =>
         cur = Raise(ErrInvalidNumber)
    /\ ParseIn.type \notin {"number", "string"} => cur = Raise(ErrUnsupported)

\* NaN has been passed as a longitude and the invalid-number error was raised
C30_Witness ==
  /\ Did("parseToDD")
  /\ ParseIn = NonFinite("NaN")
  /\ ParseKind = LON
  /\ cur = Raise(ErrInvalidNumber)

====
